---- MODULE Spec2Model ----
(***************************************************************************)
(* Model of MicroPython/Examples/Basics/1-HelloWorld.py.                   *)
(*                                                                         *)
(* The script is one straight line of calls into the machine, ili9341_cyd  *)
(* and xglcd_font modules.  The model keeps the position of the script,    *)
(* the names the script binds, the state of the GPIO lines the script      *)
(* names, and the list of calls the peripheral layer has received.  Every  *)
(* call into a collaborator that can raise either returns or raises; a     *)
(* raise is not caught anywhere in the script.                             *)
(***************************************************************************)
EXTENDS Integers, Sequences, FiniteSets, TLC

VARIABLES pc, pins, red_led, green_led, blue_led, spi, display, robotron,
          calls, elapsed, err

vars == <<pc, pins, red_led, green_led, blue_led, spi, display, robotron,
          calls, elapsed, err>>

(* ---- literals of the script ------------------------------------------- *)

RED_LED_PIN == 4
GREEN_LED_PIN == 16
BLUE_LED_PIN == 17
SPI_ID == 1
BAUDRATE == 40000000
SCK_PIN == 14
MOSI_PIN == 13
DC_PIN == 2
CS_PIN == 15
\* variant: the backlight wired to the line of the red LED
BL_PIN_shared == RED_LED_PIN
BL_PIN == 21
ROTATION == 180
FONT_PATH == "fonts/Robotron13x21.c"
FONT_WIDTH == 13
FONT_HEIGHT == 21
SLEEP_SECONDS == 10

LedPins == {RED_LED_PIN, GREEN_LED_PIN, BLUE_LED_PIN}
PinIds == LedPins \cup {SCK_PIN, MOSI_PIN, DC_PIN, CS_PIN, BL_PIN}
Level == {0, 1}

(* ---- collaborators ---------------------------------------------------- *)

\* color565(r, g, b): 5 bits of red, 6 of green, 5 of blue in one 16-bit
\* integer, (r & 0xf8) << 8 | (g & 0xfc) << 3 | b >> 3
color565(r, g, b) == ((r \div 8) * 2048) + ((g \div 4) * 32) + (b \div 8)

\* the peripheral layer receives a call
Call(op, args) == calls' = Append(calls, [op |-> op, args |-> args])

\* variant: a raise is caught and the script goes on
OutcomeSwallow(ok, op, next) ==
    /\ pc' = next
    /\ err' = IF ok THEN err ELSE op
\* a call returns (the script goes on to next) or raises (nothing catches it)
Outcome(ok, op, next) ==
    /\ pc' = IF ok THEN next ELSE "failed"
    /\ err' = IF ok THEN err ELSE op

\* a driver operation moves the bus and control lines of its handle
Transfer(d) ==
    \E a, b, c, e \in Level :
        pins' = [pins EXCEPT ![d.dc].level = a, ![d.cs].level = b,
                             ![d.spi.sck].level = c, ![d.spi.mosi].level = e]

(* ---- module level: lines 8-14 ----------------------------------------- *)

\* Pin(n, Pin.OUT): output mode, the level of the line is not given
LedPin(at, n, next) ==
    /\ pc = at
    /\ \E ok \in BOOLEAN :
        /\ Call("Pin", <<n, "OUT">>)
        /\ pins' = IF ok THEN [pins EXCEPT ![n].mode = "OUT"] ELSE pins
        /\ Outcome(ok, "Pin", next)
        /\ red_led' = IF ok /\ at = "L8" THEN <<n>> ELSE red_led
        /\ green_led' = IF ok /\ at = "L9" THEN <<n>> ELSE green_led
        /\ blue_led' = IF ok /\ at = "L10" THEN <<n>> ELSE blue_led
    /\ UNCHANGED <<spi, display, robotron, elapsed>>

RedLedPin == LedPin("L8", RED_LED_PIN, "L9")
GreenLedPin == LedPin("L9", GREEN_LED_PIN, "L10")
BlueLedPin == LedPin("L10", BLUE_LED_PIN, "L12")

\* variant: handle.off() in place of handle.on()
LedOff(at, handle, next) ==
    /\ pc = at
    /\ Len(handle) = 1
    /\ Call("off", <<handle[1]>>)
    /\ pins' = [pins EXCEPT ![handle[1]].level = 0]
    /\ pc' = next
    /\ UNCHANGED <<red_led, green_led, blue_led, spi, display, robotron,
                   elapsed, err>>
\* handle.on(): drives the line of the handle high
LedOn(at, handle, next) ==
    /\ pc = at
    /\ Len(handle) = 1
    /\ Call("on", <<handle[1]>>)
    /\ pins' = [pins EXCEPT ![handle[1]].level = 1]
    /\ pc' = next
    /\ UNCHANGED <<red_led, green_led, blue_led, spi, display, robotron,
                   elapsed, err>>

RedLedOn == LedOn("L12", red_led, "L13")
GreenLedOn == LedOn("L13", green_led, "L14")
BlueLedOn == LedOn("L14", blue_led, "L35")

\* line 35: printText()
CallPrintText ==
    /\ pc = "L35"
    /\ pc' = "L20sck"
    /\ UNCHANGED <<pins, red_led, green_led, blue_led, spi, display, robotron,
                   calls, elapsed, err>>

(* ---- printText: lines 20-33 ------------------------------------------- *)

\* Pin(n): a handle of line n, mode and level untouched
ArgPin(at, n, next) ==
    /\ pc = at
    /\ \E ok \in BOOLEAN :
        /\ Call("Pin", <<n>>)
        /\ Outcome(ok, "Pin", next)
    /\ UNCHANGED <<pins, red_led, green_led, blue_led, spi, display, robotron,
                   elapsed>>

SckPin == ArgPin("L20sck", SCK_PIN, "L20mosi")
MosiPin == ArgPin("L20mosi", MOSI_PIN, "L20")

\* variant: a lower baud rate
SpiCtorSlow ==
    /\ pc = "L20"
    /\ \E ok \in BOOLEAN :
        LET h == [id |-> SPI_ID, baudrate |-> BAUDRATE \div 4,
                  sck |-> SCK_PIN, mosi |-> MOSI_PIN] IN
        /\ Call("SPI", <<h>>)
        /\ spi' = IF ok THEN <<h>> ELSE spi
        /\ Outcome(ok, "SPI", "L21dc")
    /\ UNCHANGED <<pins, red_led, green_led, blue_led, display, robotron,
                   elapsed>>
\* line 20: spi = SPI(1, baudrate=40000000, sck=Pin(14), mosi=Pin(13))
SpiCtor ==
    /\ pc = "L20"
    /\ \E ok \in BOOLEAN :
        LET h == [id |-> SPI_ID, baudrate |-> BAUDRATE,
                  sck |-> SCK_PIN, mosi |-> MOSI_PIN] IN
        /\ Call("SPI", <<h>>)
        /\ spi' = IF ok THEN <<h>> ELSE spi
        /\ Outcome(ok, "SPI", "L21dc")
    /\ UNCHANGED <<pins, red_led, green_led, blue_led, display, robotron,
                   elapsed>>

DcPin == ArgPin("L21dc", DC_PIN, "L21cs")
CsPin == ArgPin("L21cs", CS_PIN, "L21bl")
BlPin == ArgPin("L21bl", BL_PIN, "L21")

\* variant: the handle is bound and used whether or not the constructor
\* succeeded
DisplayCtorUnchecked ==
    /\ pc = "L21"
    /\ Len(spi) = 1
    /\ \E ok \in BOOLEAN :
        LET h == [spi |-> spi[1], dc |-> DC_PIN, cs |-> CS_PIN,
                  bl |-> BL_PIN, rotation |-> ROTATION] IN
        /\ Call("Display", <<h>>)
        /\ \E l \in Level, a, b, c, e \in Level :
             pins' = [pins EXCEPT ![h.bl].level = l,
                                  ![h.dc].level = a, ![h.cs].level = b,
                                  ![h.spi.sck].level = c,
                                  ![h.spi.mosi].level = e]
        /\ display' = <<h>>
        /\ pc' = "L24"
        /\ err' = IF ok THEN err ELSE "Display"
    /\ UNCHANGED <<red_led, green_led, blue_led, spi, robotron, elapsed>>
\* line 21: display = Display(spi, dc=Pin(2), cs=Pin(15), bl=Pin(21),
\*                            rotation=180)
\* the constructor may move the backlight line as well as the bus lines
DisplayCtor ==
    /\ pc = "L21"
    /\ Len(spi) = 1
    /\ \E ok \in BOOLEAN :
        LET h == [spi |-> spi[1], dc |-> DC_PIN, cs |-> CS_PIN,
                  bl |-> BL_PIN, rotation |-> ROTATION] IN
        /\ Call("Display", <<h>>)
        /\ \E l \in Level, a, b, c, e \in Level :
             pins' = [pins EXCEPT ![h.bl].level = l,
                                  ![h.dc].level = a, ![h.cs].level = b,
                                  ![h.spi.sck].level = c,
                                  ![h.spi.mosi].level = e]
        /\ display' = IF ok THEN <<h>> ELSE display
        /\ Outcome(ok, "Display", "L24")
    /\ UNCHANGED <<red_led, green_led, blue_led, spi, robotron, elapsed>>

\* variant: x and y exchanged
DrawText8x8Swapped ==
    /\ pc = "L24"
    /\ Len(display) = 1
    /\ \E ok \in BOOLEAN :
        /\ Call("draw_text8x8",
                <<display[1], 80, 20, "Hello World!", color565(255, 0, 255)>>)
        /\ Transfer(display[1])
        /\ Outcome(ok, "draw_text8x8", "L27")
    /\ UNCHANGED <<red_led, green_led, blue_led, spi, display, robotron,
                   elapsed>>
\* line 24: display.draw_text8x8(20, 80, 'Hello World!', color565(255, 0, 255))
DrawText8x8 ==
    /\ pc = "L24"
    /\ Len(display) = 1
    /\ \E ok \in BOOLEAN :
        /\ Call("draw_text8x8",
                <<display[1], 20, 80, "Hello World!", color565(255, 0, 255)>>)
        /\ Transfer(display[1])
        /\ Outcome(ok, "draw_text8x8", "L27")
    /\ UNCHANGED <<red_led, green_led, blue_led, spi, display, robotron,
                   elapsed>>

\* variant: width and height exchanged
LoadFontSwapped ==
    /\ pc = "L27"
    /\ \E ok \in BOOLEAN :
        LET f == [path |-> FONT_PATH, width |-> FONT_HEIGHT,
                  height |-> FONT_WIDTH] IN
        /\ Call("XglcdFont", <<f>>)
        /\ robotron' = IF ok THEN <<f>> ELSE robotron
        /\ Outcome(ok, "XglcdFont", "L28")
    /\ UNCHANGED <<pins, red_led, green_led, blue_led, spi, display, elapsed>>
\* line 27: robotron = XglcdFont('fonts/Robotron13x21.c', 13, 21)
LoadFont ==
    /\ pc = "L27"
    /\ \E ok \in BOOLEAN :
        LET f == [path |-> FONT_PATH, width |-> FONT_WIDTH,
                  height |-> FONT_HEIGHT] IN
        /\ Call("XglcdFont", <<f>>)
        /\ robotron' = IF ok THEN <<f>> ELSE robotron
        /\ Outcome(ok, "XglcdFont", "L28")
    /\ UNCHANGED <<pins, red_led, green_led, blue_led, spi, display, elapsed>>

\* line 28: display.draw_text(20, 155, 'HELLO WORLD!', robotron,
\*                            color565(255, 255, 255))
DrawText ==
    /\ pc = "L28"
    /\ Len(display) = 1
    /\ Len(robotron) = 1
    /\ \E ok \in BOOLEAN :
        /\ Call("draw_text",
                <<display[1], 20, 155, "HELLO WORLD!", robotron[1],
                  color565(255, 255, 255)>>)
        /\ Transfer(display[1])
        /\ Outcome(ok, "draw_text", "L30")
    /\ UNCHANGED <<red_led, green_led, blue_led, spi, display, robotron,
                   elapsed>>

\* line 30: sleep(10)
Sleep ==
    /\ pc = "L30"
    /\ Call("sleep", <<SLEEP_SECONDS>>)
    /\ elapsed' = elapsed + SLEEP_SECONDS
    /\ pc' = "L31"
    /\ UNCHANGED <<pins, red_led, green_led, blue_led, spi, display, robotron,
                   err>>

\* a method of the display handle that takes no argument
DisplayOp(at, op, next) ==
    /\ pc = at
    /\ Len(display) = 1
    /\ \E ok \in BOOLEAN :
        /\ Call(op, <<display[1]>>)
        /\ Transfer(display[1])
        /\ Outcome(ok, op, next)
    /\ UNCHANGED <<red_led, green_led, blue_led, spi, display, robotron,
                   elapsed>>

\* line 31: display.clear()
Clear == DisplayOp("L31", "clear", "L32")

\* variant: clear() called a second time in place of cleanup()
CleanupAsClear == DisplayOp("L32", "clear", "L33")
\* line 32: display.cleanup()
Cleanup == DisplayOp("L32", "cleanup", "L33")

\* variant: the display is cleared once more after the backlight is off
BacklightOffThenClear == DisplayOp("L33", "backlight_off", "L31cleared")
                         \/ DisplayOp("L31cleared", "clear", "done")
\* line 33: display.backlight_off(): the backlight line goes low
BacklightOff ==
    /\ pc = "L33"
    /\ Len(display) = 1
    /\ \E ok \in BOOLEAN :
        /\ Call("backlight_off", <<display[1]>>)
        /\ pins' = IF ok THEN [pins EXCEPT ![display[1].bl].level = 0]
                         ELSE pins
        /\ Outcome(ok, "backlight_off", "done")
    /\ UNCHANGED <<red_led, green_led, blue_led, spi, display, robotron,
                   elapsed>>

(* ---- the script ------------------------------------------------------- *)

Init ==
    /\ pc = "L8"
    /\ pins \in [PinIds -> [mode : {"unconfigured"}, level : Level]]
    /\ red_led = <<>>
    /\ green_led = <<>>
    /\ blue_led = <<>>
    /\ spi = <<>>
    /\ display = <<>>
    /\ robotron = <<>>
    /\ calls = <<>>
    /\ elapsed = 0
    /\ err = ""

Next ==
    \/ RedLedPin
    \/ GreenLedPin
    \/ BlueLedPin
    \/ RedLedOn
    \/ GreenLedOn
    \/ BlueLedOn
    \/ CallPrintText
    \/ SckPin
    \/ MosiPin
    \/ SpiCtor
    \/ DcPin
    \/ CsPin
    \/ BlPin
    \/ DisplayCtor
    \/ DrawText8x8
    \/ LoadFont
    \/ DrawText
    \/ Sleep
    \/ Clear
    \/ Cleanup
    \/ BacklightOff

Spec == Init /\ [][Next]_vars

(* ---- properties ------------------------------------------------------- *)

\* positions in the list of received calls
Ops(o) == {i \in DOMAIN calls : calls[i].op = o}
DrawOps == Ops("draw_text8x8") \cup Ops("draw_text")
\* every on() of lines 12-14 has returned
LedsInitialised == Cardinality(Ops("on")) = 3

\* C1: in a run where nothing fails, after the one sleep(10) the display
\* handle receives exactly clear, cleanup, backlight_off, once each and in
\* that order, and every draw call comes before the sleep.
C1_TeardownOrder ==
    /\ err = "" =>
         \A s \in Ops("sleep") : \A i \in DrawOps : i < s
    /\ pc = "done" =>
         \E s \in Ops("sleep") :
            /\ Ops("sleep") = {s}
            /\ calls[s].args = <<10>>
            /\ elapsed = 10
            /\ Len(calls) = s + 3
            /\ calls[s + 1].op = "clear"
            /\ calls[s + 2].op = "cleanup"
            /\ calls[s + 3].op = "backlight_off"
            /\ \A k \in 1..3 : calls[s + k].args = <<display[1]>>
C1_Witness == pc = "done"

\* C2: when the construction of the XglcdFont raises, draw_text is never
\* called, sleep is never called, and the script has stopped.
C2_FontFailure ==
    err = "XglcdFont" =>
        /\ pc = "failed"
        /\ Ops("draw_text") = {}
        /\ Ops("sleep") = {}
        /\ elapsed = 0
        /\ robotron = <<>>
C2_Witness == err = "XglcdFont" /\ Ops("draw_text8x8") # {}

\* C3 (as stated): once cleanup has been called, no further call is made on
\* the display handle or on any hardware handle.
C3_CleanupIsLast == \A i \in Ops("cleanup") : i = Len(calls)

\* C3 (amended): once cleanup has been called, the only further call is one
\* backlight_off on the same display handle.
C3_OnlyBacklightOffAfterCleanup ==
    \A i \in Ops("cleanup") :
        /\ Len(calls) <= i + 1
        /\ Len(calls) = i + 1 =>
             /\ calls[i + 1].op = "backlight_off"
             /\ calls[i + 1].args = calls[i].args
             /\ calls[i].args = <<display[1]>>
C3_Witness ==
    /\ Ops("cleanup") # {}
    /\ Ops("backlight_off") # {}
    /\ err = ""

\* C4: a draw call is only ever received after the Display constructor has
\* returned the handle the draw call is made on; when the Display constructor
\* raises, no draw call is received.
C4_DisplayBeforeDraw ==
    /\ \A i \in DrawOps :
          /\ Len(display) = 1
          /\ calls[i].args[1] = display[1]
          /\ \E j \in Ops("Display") : j < i /\ calls[j].args = <<display[1]>>
    /\ err = "Display" => DrawOps = {} /\ display = <<>>
C4_Witness == DrawOps # {} /\ Len(display) = 1

\* C5: the SPI constructor is called with baudrate 40000000, sck = pin 14 and
\* mosi = pin 13 (both acquired before it) before the Display constructor,
\* and the Display constructor gets the handle the SPI constructor returned.
C5_SpiBeforeDisplay ==
    /\ \A j \in Ops("SPI") :
          /\ calls[j].args[1].baudrate = 40000000
          /\ calls[j].args[1].sck = 14
          /\ calls[j].args[1].mosi = 13
          /\ \E a, b \in Ops("Pin") :
                /\ a < b /\ b < j
                /\ calls[a].args = <<14>>
                /\ calls[b].args = <<13>>
    /\ \A i \in Ops("Display") :
          /\ Len(spi) = 1
          /\ calls[i].args[1].spi = spi[1]
          /\ \E j \in Ops("SPI") : j < i /\ calls[j].args = <<spi[1]>>
C5_Witness == Len(display) = 1 /\ DrawOps = {}

\* C6: once the three on() calls have returned, pins 4, 16 and 17 are in
\* output mode and high, and the SPI constructor is only called after that.
C6_LedsHighAfterInit ==
    /\ LedsInitialised =>
          \A n \in {4, 16, 17} : pins[n] = [mode |-> "OUT", level |-> 1]
    /\ \A j \in Ops("SPI") :
          /\ LedsInitialised
          /\ \A i \in Ops("on") : i < j
          /\ \A n \in {4, 16, 17} : \E i \in Ops("on") : calls[i].args = <<n>>
C6_Witness ==
    /\ Ops("SPI") # {}
    /\ LedsInitialised
    /\ \A n \in LedPins : pins[n] = [mode |-> "OUT", level |-> 1]

\* C7: the first draw call the driver receives is draw_text8x8(20, 80,
\* 'Hello World!', 0xF81F), and draw_text8x8 is received exactly once.
C7_FirstDraw ==
    /\ \A i \in DrawOps :
          (\A j \in DrawOps : i <= j) =>
              /\ calls[i].op = "draw_text8x8"
              /\ calls[i].args = <<display[1], 20, 80, "Hello World!", 63519>>
    /\ Cardinality(Ops("draw_text8x8")) <= 1
    /\ pc \in {"L27", "L28", "L30", "L31", "L32", "L33", "done"} =>
          Cardinality(Ops("draw_text8x8")) = 1
C7_Witness == pc = "L27" /\ Ops("draw_text8x8") # {}

\* C8: draw_text is the second draw call, received after draw_text8x8 and
\* after the XglcdFont constructor returned, with (20, 155, 'HELLO WORLD!',
\* the 13x21 font that constructor returned, 0xFFFF).
C8_SecondDraw ==
    /\ Cardinality(Ops("draw_text")) <= 1
    /\ \A i \in Ops("draw_text") :
          /\ Len(robotron) = 1
          /\ robotron[1] = [path |-> "fonts/Robotron13x21.c",
                            width |-> 13, height |-> 21]
          /\ calls[i].args =
                <<display[1], 20, 155, "HELLO WORLD!", robotron[1], 65535>>
          /\ Cardinality({k \in DrawOps : k < i}) = 1
          /\ \E j \in Ops("draw_text8x8") : j < i
          /\ \E f \in Ops("XglcdFont") :
                f < i /\ calls[f].args = <<robotron[1]>>
C8_Witness == Ops("draw_text") # {}

\* C9: a call that raises is the last call of the run: the script has
\* stopped, nothing is called again, and when the raise came from a step up
\* to clear, cleanup and backlight_off are never called.
C9_FailureTerminates ==
    /\ err # "" =>
          /\ pc = "failed"
          /\ calls # <<>>
          /\ calls[Len(calls)].op = err
          /\ err \in {"Pin", "SPI", "Display", "draw_text8x8", "XglcdFont",
                      "draw_text", "clear"} =>
                Ops("cleanup") = {} /\ Ops("backlight_off") = {}
    /\ \A o \in {"SPI", "Display", "draw_text8x8", "XglcdFont", "draw_text",
                 "sleep", "clear", "cleanup", "backlight_off"} :
          Cardinality(Ops(o)) <= 1
C9_Witness == err = "clear"

\* C10: no pin number is acquired twice, the pins of the Display handle are
\* none of the pins acquired for the LEDs or the SPI bus, and the LED pins
\* stay high in every state after their initialisation.
C10_PinsExclusive ==
    /\ \A i, j \in Ops("Pin") :
          calls[i].args[1] = calls[j].args[1] => i = j
    /\ \A d \in Ops("Display") :
          LET h == calls[d].args[1] IN
          \A n \in {h.dc, h.cs, h.bl} :
              /\ Cardinality({i \in Ops("Pin") : calls[i].args[1] = n}) = 1
              /\ n \notin {4, 16, 17, h.spi.sck, h.spi.mosi}
    /\ LedsInitialised => \A n \in {4, 16, 17} : pins[n].level = 1
C10_Witness ==
    /\ pc = "done"
    /\ pins[21].level = 0
    /\ \A n \in LedPins : pins[n].level = 1

====
